---- MODULE Spec2Model ----
(***************************************************************************)
(* Energy-balance simulation engine (simulation.ts): the pattern           *)
(* generators, the hourly allocator simulateOneHour and the orchestrator   *)
(* runSimulation.                                                          *)
(*                                                                         *)
(* Numbers.  The source computes in floating point; the model computes in  *)
(* exact arithmetic on a grid.  Power and energy of a run with n household *)
(* batteries are whole multiples of 1/(10 * n^n) kWh.  The only division   *)
(* of the allocator is "remaining / n" inside the household pass; battery  *)
(* i (0-based) sees a remainder that is a multiple of 1/n^i, so every      *)
(* quotient is again on the grid and Quot never truncates (QuotExact       *)
(* states this for the direct calls of simulateOneHour).                   *)
(* The transcendental functions sin and exp are tabulated in 1/1000.       *)
(***************************************************************************)
EXTENDS Integers, Sequences, FiniteSets, TLC

\* ------------------------------------------------------------------ bounds
MaxHouseholds == 2
MaxBatteries == 2
MaxCalls == 2

\* ------------------------------------------------------- program constants
FACTORY_LOAD_BASE == 350
FACTORY_LOAD_PEAK == 550
PUBLIC_FACILITY_LOAD_BASE == 70
PUBLIC_FACILITY_LOAD_PEAK == 130
EV_CHARGING_POWER == 3
EV_CHARGING_HOURS == <<22, 23, 0, 1, 2, 3>>
hours == 24
FirstHour == 0

\* ----------------------------------------------------------------- numbers
Min(a, b) == IF a <= b THEN a ELSE b

Max(a, b) == IF a >= b THEN a ELSE b

RECURSIVE Pow(_, _)
Pow(b, e) == IF e = 0 THEN 1 ELSE b * Pow(b, e - 1)

\* grid points per 0.1 kWh for a run with n household batteries
Den(n) == Pow(n, n)

\* a / n for a on the grid (the JavaScript "/" of lines 154 and 182)
Quot(a, n) == a \div n

\* a / b rounded to the nearest integer (sampling a real value on the grid)
RoundDiv(a, b) == (2 * a + b) \div (2 * b)

RECURSIVE Gcd(_, _)
Gcd(a, b) == IF b = 0 THEN a ELSE Gcd(b, a % b)

\* the fraction num/den in lowest terms
Frac(num, den) ==
  LET g == Gcd(num, den)
  IN  IF g = 0 THEN [num |-> 0, den |-> 1]
      ELSE [num |-> num \div g, den |-> den \div g]

RECURSIVE SumSeq(_)
SumSeq(s) == IF s = <<>> THEN 0 ELSE Head(s) + SumSeq(Tail(s))

RECURSIVE MaxSeq(_)
MaxSeq(s) == IF Len(s) = 1 THEN s[1] ELSE Max(Head(s), MaxSeq(Tail(s)))

InSeq(x, s) == \E k \in 1..Len(s) : s[k] = x

\* --------------------------------------------- tabulated Math.sin, Math.exp
\* 1000 * sin(2*pi*t/24), t = 0..23
Sin24 == <<0, 259, 500, 707, 866, 966, 1000, 966, 866, 707, 500, 259, 0, -259, -500, -707, -866, -966, -1000, -966, -866, -707, -500, -259>>

\* 1000 * exp(-((t-8)/1.5)^2)
ExpMorning == <<0, 0, 0, 0, 1, 18, 169, 641, 1000, 641, 169, 18, 1, 0, 0, 0, 0, 0, 0, 0, 0, 0, 0, 0>>

\* 1000 * exp(-((t-20)/2)^2)
ExpEvening == <<0, 0, 0, 0, 0, 0, 0, 0, 0, 0, 0, 0, 0, 0, 0, 2, 18, 105, 368, 779, 1000, 779, 368, 105>>

\* 1000 * exp(-((t-13)/3)^2)
ExpFactoryB == <<0, 0, 0, 0, 0, 1, 4, 18, 62, 169, 368, 641, 895, 1000, 895, 641, 368, 169, 62, 18, 4, 1, 0, 0>>

\* 1000 * exp(-((t-13)/4)^2)
ExpPublic == <<0, 0, 1, 2, 6, 18, 47, 105, 210, 368, 570, 779, 939, 1000, 939, 779, 570, 368, 210, 105, 47, 18, 6, 2>>

\* 1000 * exp(-((hour-12)/3)^2)
ExpPv == <<0, 0, 0, 0, 1, 4, 18, 62, 169, 368, 641, 895, 1000, 895, 641, 368, 169, 62, 18, 4, 1, 0, 0, 0>>

\* ------------------------------------------------------ pattern generators
\* Each generator returns a sequence of length h; entry t+1 is hour t, in
\* units of 0.1 kW.

\* baseLoad + morningPeak + eveningPeak, in 1e-6 kW
HouseholdRaw(t) ==
  200000 + 100 * Sin24[t + 1] + 300 * ExpMorning[t + 1] + 500 * ExpEvening[t + 1]

generateHouseholdLoadPattern(h) ==
  LET pattern == [t \in 1..h |-> HouseholdRaw(t - 1)]
      maxValue == MaxSeq(pattern)
  IN  [t \in 1..h |-> RoundDiv(pattern[t] * 10, maxValue)]

generateFactoryLoadPatternA(h) ==
  [t \in 1..h |->
     LET value == FACTORY_LOAD_BASE * 10
                  + RoundDiv((FACTORY_LOAD_PEAK - FACTORY_LOAD_BASE)
                             * (5000 + 3 * Sin24[t]), 1000)
     IN  Max(FACTORY_LOAD_BASE * 8, Min(FACTORY_LOAD_PEAK * 11, value))]

generateFactoryLoadPatternB(h) ==
  [t \in 1..h |->
     LET value == FACTORY_LOAD_BASE * 10
                  + RoundDiv((FACTORY_LOAD_PEAK - FACTORY_LOAD_BASE)
                             * (3000 + 7 * ExpFactoryB[t]), 1000)
     IN  Max(FACTORY_LOAD_BASE * 5, Min(FACTORY_LOAD_PEAK * 12, value))]

generatePublicFacilityLoadPattern(h) ==
  [t \in 1..h |->
     PUBLIC_FACILITY_LOAD_BASE * 10
     + RoundDiv((PUBLIC_FACILITY_LOAD_PEAK - PUBLIC_FACILITY_LOAD_BASE)
                * ExpPublic[t], 100)]

generatePvGenerationPattern(h, pvCapacity) ==
  [i \in 1..h |->
     LET hour == (i - 1) % 24
         value == IF hour >= 6 /\ hour <= 18 THEN ExpPv[hour + 1] ELSE 0
     IN  RoundDiv(value * pvCapacity * 8, 1000)]

generateEvLoadPattern(h) ==
  [i \in 1..h |->
     LET hour == (i - 1) % 24
     IN  IF InSeq(hour, EV_CHARGING_HOURS) THEN EV_CHARGING_POWER * 10 ELSE 0]

\* the curves runSimulation generates once per invocation (lines 218-229)
householdLoadPattern == generateHouseholdLoadPattern(hours)

factoryLoadPatternA == generateFactoryLoadPatternA(hours)

factoryLoadPatternB == generateFactoryLoadPatternB(hours)

publicLoadPattern == generatePublicFacilityLoadPattern(hours)

evLoadPattern == generateEvLoadPattern(hours)

pvPatterns ==
  [householdPvCapacity \in {0, 500, 1000} |->
     generatePvGenerationPattern(hours, householdPvCapacity)]

pvPattern(householdPvCapacity) == pvPatterns[householdPvCapacity]

\* ------------------------------------------------------------ the allocator
\* as HouseholdChargeAmount, offering the whole remaining surplus to the battery
HouseholdChargeAmountGreedy(surplus, n, capacity, level) ==
  Min(surplus, capacity - level)

\* as HouseholdChargeAmount, without the headroom of the battery
HouseholdChargeAmountUncapped(surplus, n, capacity, level) == Quot(surplus, n)

\* chargeAmount of the household pass (lines 153-156)
HouseholdChargeAmount(surplus, n, capacity, level) ==
  Min(Quot(surplus, n), capacity - level)

\* as ChargeHouseholds, without "surplus -= chargeAmount" (line 158)
RECURSIVE ChargeHouseholdsKeepSurplus(_, _, _, _)
ChargeHouseholdsKeepSurplus(batteries, i, surplus, capacity) ==
  IF i <= Len(batteries) /\ surplus > 0
  THEN LET chargeAmount ==
             Min(Quot(surplus, Len(batteries)), capacity - batteries[i])
       IN  ChargeHouseholdsKeepSurplus([batteries EXCEPT ![i] = @ + chargeAmount],
                                       i + 1, surplus, capacity)
  ELSE [batteries |-> batteries, rest |-> surplus]

\* the household charging loop (lines 152-159); i is the 1-based index
RECURSIVE ChargeHouseholds(_, _, _, _)
ChargeHouseholds(batteries, i, surplus, capacity) ==
  IF i <= Len(batteries) /\ surplus > 0
  THEN LET chargeAmount ==
             HouseholdChargeAmount(surplus, Len(batteries), capacity, batteries[i])
       IN  ChargeHouseholds([batteries EXCEPT ![i] = @ + chargeAmount],
                            i + 1, surplus - chargeAmount, capacity)
  ELSE [batteries |-> batteries, rest |-> surplus]

\* as HouseholdDischargeAmount, asking the battery for the whole remaining shortage
HouseholdDischargeAmountGreedy(shortage, n, level) == Min(shortage, level)

\* dischargeAmount of the household pass (lines 181-184)
HouseholdDischargeAmount(shortage, n, level) ==
  Min(Quot(shortage, n), level)

\* the household discharging loop (lines 180-187)
RECURSIVE DischargeHouseholds(_, _, _)
DischargeHouseholds(batteries, i, shortage) ==
  IF i <= Len(batteries) /\ shortage > 0
  THEN LET dischargeAmount ==
             HouseholdDischargeAmount(shortage, Len(batteries), batteries[i])
       IN  DischargeHouseholds([batteries EXCEPT ![i] = @ - dischargeAmount],
                               i + 1, shortage - dischargeAmount)
  ELSE [batteries |-> batteries, rest |-> shortage]

\* as SharedChargeAmount, capped by the capacity instead of the headroom
SharedChargeAmountByCapacity(surplus, capacity, level) == Min(surplus, capacity)

\* chargeAmount of the shared battery (lines 163-166)
SharedChargeAmount(surplus, capacity, level) == Min(surplus, capacity - level)

\* dischargeAmount of the shared battery (line 191)
SharedDischargeAmount(shortage, level) == Min(shortage, level)

\* as TotalLoad, with the EV charging load left out
TotalLoadWithoutEv(householdLoad, factoryLoad, publicLoad, evLoad) ==
  householdLoad + factoryLoad + publicLoad

\* totalLoad (line 139)
TotalLoad(householdLoad, factoryLoad, publicLoad, evLoad) ==
  householdLoad + factoryLoad + publicLoad + evLoad

\* as HourNet, with the operands of the subtraction swapped
HourNetSwapped(pvGeneration, totalLoad) == totalLoad - pvGeneration

\* netGeneration (line 140)
HourNet(pvGeneration, totalLoad) == pvGeneration - totalLoad

simulateOneHour(pvGeneration, householdLoad, factoryLoad, publicLoad, evLoad, householdBatteries, sharedBattery, householdBatteryCapacity, sharedBatteryCapacity) ==
  LET totalLoad == TotalLoad(householdLoad, factoryLoad, publicLoad, evLoad)
      netGeneration == HourNet(pvGeneration, totalLoad)
  IN  IF netGeneration > 0
      THEN LET pass == ChargeHouseholds(householdBatteries, 1, netGeneration,
                                        householdBatteryCapacity)
               chargeAmount ==
                 IF pass.rest > 0
                 THEN SharedChargeAmount(pass.rest, sharedBatteryCapacity, sharedBattery)
                 ELSE 0
               surplus == pass.rest - chargeAmount
           IN  [gridPurchase |-> 0,
                gridSell |-> IF surplus > 0 THEN surplus ELSE 0,
                updatedHouseholdBatteries |-> pass.batteries,
                updatedSharedBattery |-> sharedBattery + chargeAmount]
      ELSE LET pass == DischargeHouseholds(householdBatteries, 1, -netGeneration)
               dischargeAmount ==
                 IF pass.rest > 0
                 THEN SharedDischargeAmount(pass.rest, sharedBattery)
                 ELSE 0
               shortage == pass.rest - dischargeAmount
           IN  [gridPurchase |-> IF shortage > 0 THEN shortage ELSE 0,
                gridSell |-> 0,
                updatedHouseholdBatteries |-> pass.batteries,
                updatedSharedBattery |-> sharedBattery - dischargeAmount]

\* ---------------------------------------------------------- parameter sets
NumHouseholdsSet == 0..MaxHouseholds

PvCapacitySet == DOMAIN pvPatterns

HouseholdBatteryCapacitySet == {0, 10, 400}

SharedBatteryCapacitySet == {0, 500}

SimulationParams ==
  [numHouseholds : NumHouseholdsSet,
   householdPvCapacity : PvCapacitySet,
   householdBatteryCapacity : HouseholdBatteryCapacitySet,
   sharedBatteryCapacity : SharedBatteryCapacitySet,
   factoryLoadPattern : {"A", "B"}]

\* the parameter sets of the two invocations that are stepped side by side
PairParams ==
  {p \in SimulationParams :
     /\ p.numHouseholds >= 1
     /\ p.householdPvCapacity = 1000
     /\ p.householdBatteryCapacity = 400
     /\ p.sharedBatteryCapacity = 500}

Runs == {1, 2}

\* ------------------------------------------------------------------- state
\* run[r]   : the locals of invocation r of runSimulation
\* alloc    : a caller of simulateOneHour holding a battery state
VARIABLES run, alloc

vars == <<run, alloc>>

\* ---------------------------------------------------------- runSimulation
\* as SelfConsumptionRate, with the sold energy added instead of subtracted
SelfConsumptionRatePlus(totalPvGeneration, totalGridSell) ==
  LET selfConsumption == totalPvGeneration + totalGridSell
  IN  IF totalPvGeneration > 0
      THEN LET q == Frac(selfConsumption, totalPvGeneration)
               g == Gcd(100, q.den)
           IN  [num |-> q.num * (100 \div g), den |-> q.den \div g]
      ELSE [num |-> 0, den |-> 1]

\* selfConsumptionRate (lines 299-301), a fraction in lowest terms
SelfConsumptionRate(totalPvGeneration, totalGridSell) ==
  LET selfConsumption == totalPvGeneration - totalGridSell
  IN  IF totalPvGeneration > 0
      THEN LET q == Frac(selfConsumption, totalPvGeneration)
               g == Gcd(100, q.den)
           IN  [num |-> q.num * (100 \div g), den |-> q.den \div g]
      ELSE [num |-> 0, den |-> 1]

\* as InitialHouseholdBatteries, with at least one battery
InitialHouseholdBatteriesAtLeastOne(numHouseholds, householdBatteryInitial) ==
  [i \in 1..Max(1, numHouseholds) |-> householdBatteryInitial]

\* new Array(numHouseholds).fill(householdBatteryInitial) (lines 232-234)
InitialHouseholdBatteries(numHouseholds, householdBatteryInitial) ==
  [i \in 1..numHouseholds |-> householdBatteryInitial]

\* the locals of runSimulation when the loop is entered (lines 214-244);
\* capacities are kWh, the state is in grid units
RunStart(params) ==
  LET d == Den(params.numHouseholds)
      householdBatteryInitial == params.householdBatteryCapacity * 5 * d
      sharedBatteryInitial == params.sharedBatteryCapacity * 5 * d
  IN  [params |-> params,
       pc |-> "loop",
       hour |-> FirstHour,
       householdBatteries |->
         InitialHouseholdBatteries(params.numHouseholds, householdBatteryInitial),
       sharedBattery |-> sharedBatteryInitial,
       hourlyResults |-> <<>>,
       totalGridPurchase |-> 0,
       totalGridSell |-> 0,
       totalPvGeneration |-> 0,
       selfConsumptionRate |-> [num |-> 0, den |-> 1]]

\* an invocation that was never made
RunIdle(params) == [RunStart(params) EXCEPT !.pc = "idle"]

\* as LoopGuard, one iteration short
LoopGuardShort(hour, h) == hour < h - 1

\* the loop condition of line 244
LoopGuard(hour, h) == hour < h

\* as BatteryOwner, with the battery state kept in one module-level variable
BatteryOwnerShared(r) == 1

\* the battery state invocation r reads and writes (locals of lines 232-235)
BatteryOwner(r) == r

\* one iteration of the loop (lines 244-296)
HourStep(r) ==
  LET s == run[r]
      p == s.params
      d == Den(p.numHouseholds)
      t == s.hour + 1
      own == run[BatteryOwner(r)]
      factoryLoadPattern ==
        IF p.factoryLoadPattern = "A"
        THEN factoryLoadPatternA
        ELSE factoryLoadPatternB
      totalPv == pvPattern(p.householdPvCapacity)[t] * p.numHouseholds * d
      totalHouseholdLoad == householdLoadPattern[t] * p.numHouseholds * d
      totalEvLoad == evLoadPattern[t] * p.numHouseholds * d
      factoryLoad == factoryLoadPattern[t] * d
      publicLoad == publicLoadPattern[t] * d
      totalLoad == totalHouseholdLoad + factoryLoad + publicLoad + totalEvLoad
  IN  /\ s.pc = "loop"
      /\ LoopGuard(s.hour, hours)
      /\ \E result \in {simulateOneHour(totalPv, totalHouseholdLoad, factoryLoad,
                                        publicLoad, totalEvLoad,
                                        own.householdBatteries, own.sharedBattery,
                                        p.householdBatteryCapacity * 10 * d,
                                        p.sharedBatteryCapacity * 10 * d)} :
           LET record ==
                 [hour |-> s.hour,
                  pvGeneration |-> totalPv,
                  totalLoad |-> totalLoad,
                  householdBatteryLevel |-> SumSeq(result.updatedHouseholdBatteries),
                  sharedBatteryLevel |-> result.updatedSharedBattery,
                  gridPurchase |-> result.gridPurchase,
                  gridSell |-> result.gridSell]
           IN  run' = [run EXCEPT
                         ![r] = [s EXCEPT
                                   !.hour = s.hour + 1,
                                   !.householdBatteries = result.updatedHouseholdBatteries,
                                   !.sharedBattery = result.updatedSharedBattery,
                                   !.hourlyResults = Append(s.hourlyResults, record),
                                   !.totalGridPurchase = @ + result.gridPurchase,
                                   !.totalGridSell = @ + result.gridSell,
                                   !.totalPvGeneration = @ + totalPv]]
      /\ UNCHANGED alloc

\* loop exit, the metrics and the return (lines 298-309)
Finish(r) ==
  LET s == run[r]
  IN  /\ s.pc = "loop"
      /\ ~LoopGuard(s.hour, hours)
      /\ run' = [run EXCEPT
                   ![r] = [s EXCEPT
                             !.pc = "done",
                             !.selfConsumptionRate =
                               SelfConsumptionRate(s.totalPvGeneration,
                                                   s.totalGridSell)]]
      /\ UNCHANGED alloc

\* a caller of simulateOneHour that has made no call
AllocIdle ==
  [pc |-> "idle",
   calls |-> 0,
   householdBatteries |-> <<>>,
   sharedBattery |-> 0,
   householdBatteryCapacity |-> 0,
   sharedBatteryCapacity |-> 0,
   args |-> [pvGeneration |-> 0, householdLoad |-> 0, factoryLoad |-> 0,
             publicLoad |-> 0, evLoad |-> 0,
             householdBatteries |-> <<>>, sharedBattery |-> 0],
   ret |-> [gridPurchase |-> 0, gridSell |-> 0,
            updatedHouseholdBatteries |-> <<>>, updatedSharedBattery |-> 0]]

\* one invocation of runSimulation (App.tsx calls it once at a time)
InitRun ==
  /\ \E p \in SimulationParams :
       run = [r \in Runs |-> IF r = 1 THEN RunStart(p) ELSE RunIdle(p)]
  /\ alloc = AllocIdle

\* two invocations in flight
InitPair ==
  /\ \E p \in PairParams, q \in PairParams :
       run = [r \in Runs |-> IF r = 1 THEN RunStart(p) ELSE RunStart(q)]
  /\ alloc = AllocIdle

NextRun == \E r \in Runs : HourStep(r) \/ Finish(r)

\* ------------------------------------------- simulateOneHour called directly
\* whole-kWh inputs of a direct call
AllocLevelSet == {0, 5, 10}

AllocHouseholdCapacitySet == {0, 10}

AllocSharedLevelSet == {0, 1, 20, 49, 50}

AllocSharedCapacitySet == {0, 50}

AllocPvSet == {0, 40, 46, 110}

AllocHouseholdLoadSet == {0}

AllocFactoryLoadSet == {40}

AllocPublicLoadSet == {0}

AllocEvLoadSet == {0, 6}

\* a caller holding an in-bounds battery state, before its first call
InitAlloc ==
  /\ \E p \in SimulationParams :
       run = [r \in Runs |-> RunIdle(p)] /\ p.numHouseholds = 0
            /\ p.householdPvCapacity = 0 /\ p.householdBatteryCapacity = 0
            /\ p.sharedBatteryCapacity = 0 /\ p.factoryLoadPattern = "A"
  /\ \E n \in 0..MaxBatteries,
        hc \in AllocHouseholdCapacitySet, sc \in AllocSharedCapacitySet :
       \E hb \in [1..n -> {l \in AllocLevelSet : l <= hc}],
          sb \in {l \in AllocSharedLevelSet : l <= sc} :
         alloc = [AllocIdle EXCEPT
                    !.pc = "ready",
                    !.householdBatteries = [i \in 1..n |-> hb[i] * Den(n)],
                    !.sharedBattery = sb * Den(n),
                    !.householdBatteryCapacity = hc * Den(n),
                    !.sharedBatteryCapacity = sc * Den(n)]

\* the caller calls simulateOneHour with its battery state and replaces the
\* state by the result (as lines 252-270 do)
CallSimulateOneHour ==
  /\ alloc.pc = "ready"
  /\ alloc.calls < MaxCalls
  /\ \E pv \in AllocPvSet, hl \in AllocHouseholdLoadSet,
        fl \in AllocFactoryLoadSet, pl \in AllocPublicLoadSet,
        el \in AllocEvLoadSet :
       LET d == Den(Len(alloc.householdBatteries))
           ret == simulateOneHour(pv * d, hl * d, fl * d, pl * d, el * d,
                                  alloc.householdBatteries, alloc.sharedBattery,
                                  alloc.householdBatteryCapacity,
                                  alloc.sharedBatteryCapacity)
       IN  alloc' = [alloc EXCEPT
                       !.calls = @ + 1,
                       !.args = [pvGeneration |-> pv * d,
                                 householdLoad |-> hl * d,
                                 factoryLoad |-> fl * d,
                                 publicLoad |-> pl * d,
                                 evLoad |-> el * d,
                                 householdBatteries |-> alloc.householdBatteries,
                                 sharedBattery |-> alloc.sharedBattery],
                       !.ret = ret,
                       !.householdBatteries = ret.updatedHouseholdBatteries,
                       !.sharedBattery = ret.updatedSharedBattery]
  /\ UNCHANGED run

\* ---------------------------------------------------------- specifications
\* either one invocation of runSimulation or a caller of simulateOneHour
Init == InitRun \/ InitAlloc

Next == NextRun \/ CallSimulateOneHour

Spec == Init /\ [][Next]_vars

\* the loop body is straight-line synchronous code: a started invocation
\* keeps stepping
FairSpec == Spec /\ \A r \in Runs : WF_vars(HourStep(r) \/ Finish(r))

\* two invocations with their steps interleaved
SpecPair == InitPair /\ [][NextRun]_vars

\* --------------------------------------------------------- derived values
\* the inputs and the result of the caller's last call
Called == alloc.calls > 0

NetGeneration ==
  alloc.args.pvGeneration
  - (alloc.args.householdLoad + alloc.args.factoryLoad
     + alloc.args.publicLoad + alloc.args.evLoad)

BatteryCount == Len(alloc.args.householdBatteries)

\* n * x is on the grid of the next battery: no quotient of the household
\* pass has a remainder
RECURSIVE PassExact(_, _, _, _)
PassExact(before, after, i, rest) ==
  \/ i > Len(before)
  \/ rest <= 0
  \/ /\ rest % Len(before) = 0
     /\ PassExact(before, after, i + 1,
                  IF after[i] >= before[i]
                  THEN rest - (after[i] - before[i])
                  ELSE rest - (before[i] - after[i]))

QuotExact ==
  Called =>
    PassExact(alloc.args.householdBatteries, alloc.ret.updatedHouseholdBatteries,
              1, IF NetGeneration >= 0 THEN NetGeneration ELSE -NetGeneration)

\* ------------------------------------------------------------------ claims
\* invocations that were made
Started == {r \in Runs : run[r].pc # "idle"}

\* capacities of invocation r in grid units
HouseholdCapacityOf(r) ==
  run[r].params.householdBatteryCapacity * 10 * Den(run[r].params.numHouseholds)

SharedCapacityOf(r) ==
  run[r].params.sharedBatteryCapacity * 10 * Den(run[r].params.numHouseholds)

\* twice the energy stored before hour k (1-based record index) of run r
TwiceStoredBefore(r, k) ==
  IF k = 1
  THEN run[r].params.numHouseholds * HouseholdCapacityOf(r) + SharedCapacityOf(r)
  ELSE 2 * (run[r].hourlyResults[k - 1].householdBatteryLevel
            + run[r].hourlyResults[k - 1].sharedBatteryLevel)

\* C1: in every run with numHouseholds >= 1, every recorded hour satisfies
\* pvGeneration + gridPurchase - totalLoad - gridSell = stored energy after
\* the hour minus stored energy before it, where "before hour 0" is half of
\* numHouseholds * householdBatteryCapacity plus half of sharedBatteryCapacity.
HourlyEnergyBalance ==
  \A r \in Started :
    run[r].params.numHouseholds >= 1 =>
      \A k \in 1..Len(run[r].hourlyResults) :
        LET rec == run[r].hourlyResults[k]
        IN  2 * (rec.pvGeneration + rec.gridPurchase - rec.totalLoad - rec.gridSell)
            = 2 * (rec.householdBatteryLevel + rec.sharedBatteryLevel)
              - TwiceStoredBefore(r, k)

\* a finished run of two households in which batteries were charged and
\* discharged and the grid was used in both directions
HourlyEnergyBalanceWitness ==
  \E r \in Started :
    /\ run[r].pc = "done"
    /\ run[r].params.numHouseholds = 2
    /\ run[r].totalGridSell > 0
    /\ run[r].totalGridPurchase > 0
    /\ \E k \in 2..Len(run[r].hourlyResults) :
         /\ run[r].hourlyResults[k].householdBatteryLevel
              > run[r].hourlyResults[k - 1].householdBatteryLevel
         /\ run[r].hourlyResults[k].sharedBatteryLevel
              > run[r].hourlyResults[k - 1].sharedBatteryLevel
    /\ \E k \in 2..Len(run[r].hourlyResults) :
         run[r].hourlyResults[k].sharedBatteryLevel
           < run[r].hourlyResults[k - 1].sharedBatteryLevel

\* C2: every household battery level of a run lies in [0, householdBattery-
\* Capacity] and the shared level in [0, sharedBatteryCapacity], initially and
\* after every allocator step; and a direct call of simulateOneHour with
\* in-bounds levels returns in-bounds levels.
BatteryBounds ==
  /\ \A r \in Started :
       /\ \A i \in 1..Len(run[r].householdBatteries) :
            /\ run[r].householdBatteries[i] >= 0
            /\ run[r].householdBatteries[i] <= HouseholdCapacityOf(r)
       /\ run[r].sharedBattery >= 0
       /\ run[r].sharedBattery <= SharedCapacityOf(r)
  /\ /\ \A i \in 1..Len(alloc.householdBatteries) :
            /\ alloc.householdBatteries[i] >= 0
            /\ alloc.householdBatteries[i] <= alloc.householdBatteryCapacity
     /\ alloc.sharedBattery >= 0
     /\ alloc.sharedBattery <= alloc.sharedBatteryCapacity

\* a run whose surplus hit the capacity of a household battery and of the
\* shared battery, and which was drained to zero before
BatteryBoundsWitness ==
  \E r \in Started :
    /\ run[r].params.numHouseholds >= 1
    /\ run[r].params.householdBatteryCapacity > 0
    /\ run[r].params.sharedBatteryCapacity > 0
    /\ run[r].hour > 0
    /\ run[r].sharedBattery = SharedCapacityOf(r)
    /\ \E i \in 1..Len(run[r].householdBatteries) :
         run[r].householdBatteries[i] = HouseholdCapacityOf(r)
    /\ \E k \in 1..Len(run[r].hourlyResults) :
         /\ run[r].hourlyResults[k].householdBatteryLevel = 0
         /\ run[r].hourlyResults[k].sharedBatteryLevel = 0

RunReturns24Records ==
  /\ [](\A r \in Started :
          /\ Len(run[r].hourlyResults) <= 24
          /\ run[r].pc = "done" =>
               /\ run[r].hour = 24
               /\ Len(run[r].hourlyResults) = 24
               /\ \A k \in 1..24 : run[r].hourlyResults[k].hour = k - 1)
  /\ \A r \in Runs : (run[r].pc = "loop") ~> (run[r].pc = "done")

RunReturns24RecordsWitness ==
  \E r \in Started :
    /\ run[r].pc = "done"
    /\ run[r].params.numHouseholds >= 1
    /\ Len(run[r].hourlyResults) = 24
    /\ run[r].hourlyResults[24].hour = 23

\* C5: at the return of a run, totalPvGeneration > 0 implies
\* 0 <= totalGridSell <= totalPvGeneration and selfConsumptionRate in
\* [0, 100]; totalPvGeneration = 0 implies selfConsumptionRate = 0.
SelfConsumptionRange ==
  \A r \in Started :
    run[r].pc = "done" =>
      /\ run[r].selfConsumptionRate.den > 0
      /\ run[r].totalPvGeneration > 0 =>
           /\ 0 <= run[r].totalGridSell
           /\ run[r].totalGridSell <= run[r].totalPvGeneration
           /\ 0 <= run[r].selfConsumptionRate.num
           /\ run[r].selfConsumptionRate.num <= 100 * run[r].selfConsumptionRate.den
      /\ run[r].totalPvGeneration = 0 => run[r].selfConsumptionRate.num = 0
      /\ run[r].params.householdPvCapacity = 0 => run[r].totalPvGeneration = 0

\* a returned run that sold part of its generation
SelfConsumptionRangeWitness ==
  \E r \in Started :
    /\ run[r].pc = "done"
    /\ run[r].totalPvGeneration > 0
    /\ run[r].totalGridSell > 0
    /\ run[r].selfConsumptionRate.num > 0
    /\ run[r].selfConsumptionRate.num < 100 * run[r].selfConsumptionRate.den

RECURSIVE RemainingBefore(_, _, _, _)
RemainingBefore(amount, before, after, i) ==
  IF i = 1 THEN amount
  ELSE LET moved == IF after[i - 1] >= before[i - 1]
                    THEN after[i - 1] - before[i - 1]
                    ELSE before[i - 1] - after[i - 1]
       IN  RemainingBefore(amount, before, after, i - 1) - moved

\* C7: with surplus = generation - load > 0, battery i is charged by
\* min(remaining / N, capacity - level_i) in index order, the shared battery
\* by min(remaining, sharedCapacity - sharedLevel), the rest is gridSell and
\* gridPurchase is 0; batteries [5,5] of capacity 10, shared 0 of 50 and
\* surplus 70 give [10,10], 50, gridSell 10, gridPurchase 0.
SurplusAllocation ==
  (Called /\ NetGeneration > 0) =>
    LET before == alloc.args.householdBatteries
        after == alloc.ret.updatedHouseholdBatteries
        n == BatteryCount
        d == Den(n)
        rem(i) == RemainingBefore(NetGeneration, before, after, i)
        sharedCharge == alloc.ret.updatedSharedBattery - alloc.args.sharedBattery
    IN  /\ Len(after) = n
        /\ \A i \in 1..n :
             n * (after[i] - before[i])
               = Min(rem(i), n * (alloc.householdBatteryCapacity - before[i]))
        /\ sharedCharge
             = Min(rem(n + 1), alloc.sharedBatteryCapacity - alloc.args.sharedBattery)
        /\ alloc.ret.gridSell = rem(n + 1) - sharedCharge
        /\ alloc.ret.gridPurchase = 0
        /\ ( /\ before = <<5 * d, 5 * d>>
             /\ alloc.householdBatteryCapacity = 10 * d
             /\ alloc.args.sharedBattery = 0
             /\ alloc.sharedBatteryCapacity = 50 * d
             /\ NetGeneration = 70 * d )
           => /\ after = <<10 * d, 10 * d>>
              /\ alloc.ret.updatedSharedBattery = 50 * d
              /\ alloc.ret.gridSell = 10 * d

\* the scenario of the claim, and a call that leaves household headroom
SurplusAllocationWitness ==
  /\ Called
  /\ alloc.args.householdBatteries = <<20, 20>>
  /\ alloc.householdBatteryCapacity = 40
  /\ alloc.args.sharedBattery = 0
  /\ alloc.sharedBatteryCapacity = 200
  /\ NetGeneration = 280
  /\ alloc.ret.gridSell = 40

\* C8: with shortage = load - generation > 0, battery i is discharged by
\* min(remaining / N, level_i) in index order, the shared battery by
\* min(remaining, sharedLevel), the rest is gridPurchase and gridSell is 0;
\* batteries [5,5], shared 20 and shortage 40 give [0,0], 0, gridPurchase 10,
\* gridSell 0.
ShortfallAllocation ==
  (Called /\ NetGeneration < 0) =>
    LET before == alloc.args.householdBatteries
        after == alloc.ret.updatedHouseholdBatteries
        n == BatteryCount
        d == Den(n)
        rem(i) == RemainingBefore(-NetGeneration, before, after, i)
        sharedDischarge == alloc.args.sharedBattery - alloc.ret.updatedSharedBattery
    IN  /\ Len(after) = n
        /\ \A i \in 1..n :
             n * (before[i] - after[i]) = Min(rem(i), n * before[i])
        /\ sharedDischarge = Min(rem(n + 1), alloc.args.sharedBattery)
        /\ alloc.ret.gridPurchase = rem(n + 1) - sharedDischarge
        /\ alloc.ret.gridSell = 0
        /\ ( /\ before = <<5 * d, 5 * d>>
             /\ alloc.args.sharedBattery = 20 * d
             /\ NetGeneration = -(40 * d) )
           => /\ after = <<0, 0>>
              /\ alloc.ret.updatedSharedBattery = 0
              /\ alloc.ret.gridPurchase = 10 * d

\* the scenario of the claim
ShortfallAllocationWitness ==
  /\ Called
  /\ alloc.args.householdBatteries = <<20, 20>>
  /\ alloc.args.sharedBattery = 80
  /\ NetGeneration = -160
  /\ alloc.ret.gridPurchase = 40

\* C9: when generation equals total load, simulateOneHour returns every
\* household level and the shared level unchanged, gridPurchase = 0 and
\* gridSell = 0.
BalancedHour ==
  (Called /\ NetGeneration = 0) =>
    /\ alloc.ret.updatedHouseholdBatteries = alloc.args.householdBatteries
    /\ alloc.ret.updatedSharedBattery = alloc.args.sharedBattery
    /\ alloc.ret.gridPurchase = 0
    /\ alloc.ret.gridSell = 0

\* a balanced hour with a non-zero EV load and batteries that hold energy
\* and have headroom
BalancedHourWitness ==
  /\ Called
  /\ NetGeneration = 0
  /\ alloc.args.evLoad > 0
  /\ BatteryCount = 2
  /\ \A i \in 1..BatteryCount :
       /\ alloc.args.householdBatteries[i] > 0
       /\ alloc.args.householdBatteries[i] < alloc.householdBatteryCapacity
  /\ alloc.args.sharedBattery > 0
  /\ alloc.args.sharedBattery < alloc.sharedBatteryCapacity

\* C10: a simulateOneHour call with zero household batteries returns an
\* empty household collection, moves min(surplus, shared headroom) into (or
\* min(shortage, shared level) out of) the shared battery and the rest to
\* gridSell (gridPurchase); a run with numHouseholds = 0 has no household
\* battery and returns 24 records.
EmptyHouseholdCollection ==
  /\ (Called /\ BatteryCount = 0) =>
       /\ alloc.ret.updatedHouseholdBatteries = <<>>
       /\ NetGeneration > 0 =>
            LET c == Min(NetGeneration,
                         alloc.sharedBatteryCapacity - alloc.args.sharedBattery)
            IN  /\ alloc.ret.updatedSharedBattery = alloc.args.sharedBattery + c
                /\ alloc.ret.gridSell = NetGeneration - c
                /\ alloc.ret.gridPurchase = 0
       /\ NetGeneration < 0 =>
            LET c == Min(-NetGeneration, alloc.args.sharedBattery)
            IN  /\ alloc.ret.updatedSharedBattery = alloc.args.sharedBattery - c
                /\ alloc.ret.gridPurchase = -NetGeneration - c
                /\ alloc.ret.gridSell = 0
  /\ \A r \in Started :
       run[r].params.numHouseholds = 0 =>
         /\ run[r].householdBatteries = <<>>
         /\ \A k \in 1..Len(run[r].hourlyResults) :
              run[r].hourlyResults[k].householdBatteryLevel = 0
         /\ run[r].pc = "done" => Len(run[r].hourlyResults) = 24

\* a call without household batteries whose surplus fills the shared
\* battery and spills to the grid
EmptyHouseholdCollectionWitness ==
  /\ Called
  /\ BatteryCount = 0
  /\ NetGeneration > 0
  /\ alloc.ret.updatedSharedBattery > alloc.args.sharedBattery
  /\ alloc.ret.gridSell > 0

\* a run without households that returned
EmptyRunReturned ==
  \E r \in Started :
    /\ run[r].params.numHouseholds = 0
    /\ run[r].pc = "done"
    /\ run[r].totalGridPurchase > 0

\* C11: in every recorded hour of every run and after every direct call of
\* simulateOneHour with in-bounds levels, gridPurchase >= 0, gridSell >= 0
\* and at most one of them is positive; gridSell > 0 only when generation
\* exceeds the load and gridPurchase > 0 only when the load exceeds
\* generation.
GridFlowsExclusive ==
  /\ Called =>
       /\ alloc.ret.gridPurchase >= 0
       /\ alloc.ret.gridSell >= 0
       /\ ~(alloc.ret.gridPurchase > 0 /\ alloc.ret.gridSell > 0)
       /\ alloc.ret.gridSell > 0 => NetGeneration > 0
       /\ alloc.ret.gridPurchase > 0 => NetGeneration < 0
  /\ \A r \in Started :
       \A k \in 1..Len(run[r].hourlyResults) :
         LET rec == run[r].hourlyResults[k]
         IN  /\ rec.gridPurchase >= 0
             /\ rec.gridSell >= 0
             /\ ~(rec.gridPurchase > 0 /\ rec.gridSell > 0)
             /\ rec.gridSell > 0 => rec.pvGeneration > rec.totalLoad
             /\ rec.gridPurchase > 0 => rec.pvGeneration < rec.totalLoad

\* a returned run with an hour that sold, an hour that purchased and an
\* hour in which the batteries took the whole difference
GridFlowsExclusiveWitness ==
  \E r \in Started :
    /\ run[r].pc = "done"
    /\ run[r].params.numHouseholds >= 1
    /\ \E k \in 1..Len(run[r].hourlyResults) :
         /\ run[r].hourlyResults[k].gridSell > 0
         /\ run[r].hourlyResults[k].gridPurchase = 0
    /\ \E k \in 1..Len(run[r].hourlyResults) :
         /\ run[r].hourlyResults[k].gridPurchase > 0
         /\ run[r].hourlyResults[k].gridSell = 0
    /\ \E k \in 1..Len(run[r].hourlyResults) :
         /\ run[r].hourlyResults[k].gridPurchase = 0
         /\ run[r].hourlyResults[k].gridSell = 0
         /\ run[r].hourlyResults[k].pvGeneration # run[r].hourlyResults[k].totalLoad

\* C12: after a simulateOneHour call with in-bounds levels (a direct call or
\* an hour of a run), gridSell > 0 implies that the returned shared battery
\* level equals sharedBatteryCapacity and gridPurchase > 0 implies that it
\* equals 0.
GridAfterSharedBattery ==
  /\ Called =>
       /\ alloc.ret.gridSell > 0 =>
            alloc.ret.updatedSharedBattery = alloc.sharedBatteryCapacity
       /\ alloc.ret.gridPurchase > 0 => alloc.ret.updatedSharedBattery = 0
  /\ \A r \in Started :
       \A k \in 1..Len(run[r].hourlyResults) :
         LET rec == run[r].hourlyResults[k]
         IN  /\ rec.gridSell > 0 => rec.sharedBatteryLevel = SharedCapacityOf(r)
             /\ rec.gridPurchase > 0 => rec.sharedBatteryLevel = 0

\* a call that sells to the grid from a shared battery it has just filled,
\* while a household battery still has headroom
GridAfterSharedBatteryWitness ==
  /\ Called
  /\ BatteryCount = 2
  /\ alloc.sharedBatteryCapacity > 0
  /\ alloc.args.sharedBattery < alloc.sharedBatteryCapacity
  /\ alloc.ret.updatedSharedBattery = alloc.sharedBatteryCapacity
  /\ alloc.ret.gridSell > 0
  /\ \E i \in 1..BatteryCount :
       alloc.ret.updatedHouseholdBatteries[i] < alloc.householdBatteryCapacity

\* a call that purchases from the grid after emptying the shared battery,
\* while a household battery still holds energy
GridPurchaseWithChargedHousehold ==
  /\ Called
  /\ alloc.args.sharedBattery > 0
  /\ alloc.ret.updatedSharedBattery = 0
  /\ alloc.ret.gridPurchase > 0
  /\ \E i \in 1..BatteryCount : alloc.ret.updatedHouseholdBatteries[i] > 0

====
